---- MODULE Spec2Model ----
(***************************************************************************)
(* A model of ecg/models/dirichlet_model/dirichlet_model.py: the           *)
(* DirichletModel object (class list, graph, global step, saved class      *)
(* files), the pipeline variables its *_on_batch methods append to, and    *)
(* the numerical helpers _concatenate_batch and                            *)
(* _get_dirichlet_mixture_stats. Real numbers are exact rationals          *)
(* <<numerator, denominator>> in lowest terms with a positive denominator. *)
(***************************************************************************)
EXTENDS Integers, Sequences, FiniteSets, TLC

VARIABLES
    classes,      \* self._classes: None or Some(list of class names)
    built,        \* the graph and session: None, or Some(n) for a network
                  \* with n output units
    global_step,  \* the graph's global_step variable
    files,        \* what save wrote: <<path, step>> -> [graph, classes]
    pipeline,     \* the pipeline's list variables, by name
    ncalls,       \* calls the driver has made on the object
    call,         \* the current or last call: [op, done, its arguments]
    ret           \* what the last call returned or raised

vars == <<classes, built, global_step, files, pipeline, ncalls, call, ret>>

(***************************************************************************)
(* Bounds of the model.                                                    *)
(***************************************************************************)
\* items in one batch
MaxItems == 3
\* signal rows (segments) of one item; rows of one mixture
MaxRows == 2
\* classes of a model
MaxClasses == 3
\* calls made on one model object
MaxCalls == 4

\* An optional Python value is a sequence of length at most one: None is the
\* empty one, Some(v) holds the value v.
None == <<>>
Some(v) == <<v>>

\* numpy's nan, written as the fraction 0/0
NaN == <<0, 0>>

(***************************************************************************)
(* Sequences.                                                              *)
(***************************************************************************)
\* the sequence f with its elements computed once
Arr(f) == f \o <<>>

Min(a, b) == IF a <= b THEN a ELSE b

SeqsUpTo(S, lo, hi) == UNION {[1..k -> S] : k \in lo..hi}

RECURSIVE Flatten(_)
\* np.concatenate along axis 0 of a list of arrays, each a sequence of rows
Flatten(ss) ==
    IF ss = <<>> THEN <<>> ELSE Head(ss) \o Flatten(Tail(ss))

RECURSIVE SumSeq(_)
SumSeq(s) == IF s = <<>> THEN 0 ELSE Head(s) + SumSeq(Tail(s))

\* a cumsum that forgets the running total
CumsumNoCarry(s) == s

\* np.cumsum
Cumsum(s) == Arr([k \in 1..Len(s) |-> SumSeq(SubSeq(s, 1, k))])

\* python's s[:-1]
DropLast(s) == SubSeq(s, 1, Len(s) - 1)

\* python's ary[lo:hi] for 0 <= lo, 0 <= hi (0-based, hi exclusive, clipped)
Slice(ary, lo, hi) == SubSeq(ary, Min(lo, Len(ary)) + 1, Min(hi, Len(ary)))

\* a tile that ignores the row count
TileOnce(t, r) == [j \in 1..Min(r, 1) |-> IF t = None THEN <<None>> ELSE t[1]]

\* np.tile(t, (r, 1)): r rows, each a copy of t; None becomes a 1-column
\* object row
Tile(t, r) == [j \in 1..r |-> IF t = None THEN <<None>> ELSE t[1]]

\* a split that takes each index as a section length
SplitByLength(ary, indices) ==
    [g \in 1..(Len(indices) + 1) |->
        Slice(ary,
              IF g = 1 THEN 0 ELSE indices[g - 1],
              IF g = Len(indices) + 1 THEN Len(ary)
              ELSE (IF g = 1 THEN 0 ELSE indices[g - 1]) + indices[g])]

\* np.split(ary, indices): sub-arrays ary[0:i1], ary[i1:i2], ..., ary[ik:]
Split(ary, indices) ==
    [g \in 1..(Len(indices) + 1) |->
        Slice(ary,
              IF g = 1 THEN 0 ELSE indices[g - 1],
              IF g = Len(indices) + 1 THEN Len(ary) ELSE indices[g])]

(***************************************************************************)
(* _concatenate_batch. A batch is a sequence of items [signal, target];    *)
(* signal is the sequence of the item's rows (signal.shape[0] = Len), and  *)
(* target is None or Some(vector). np.concatenate raises ValueError on an      *)
(* empty list and when the tiled targets differ in column count.           *)
(***************************************************************************)
\* columns of np.tile(t, (r, 1))
Cols(t) == IF t = None THEN 1 ELSE Len(t[1])

ShapesMatch(batch) ==
    \A i, j \in 1..Len(batch) : Cols(batch[i].target) = Cols(batch[j].target)

_concatenate_batch(batch) ==
    IF Len(batch) = 0 \/ ~ShapesMatch(batch)
    THEN [raised |-> "ValueError"]
    ELSE [raised |-> "",
          x |-> Flatten([i \in 1..Len(batch) |-> batch[i].signal]),
          y |-> Flatten([i \in 1..Len(batch) |->
                            Tile(batch[i].target, Len(batch[i].signal))]),
          split_indices |->
              DropLast(Cumsum([i \in 1..Len(batch) |-> Len(batch[i].signal)]))]

(***************************************************************************)
(* Exact rational arithmetic.                                              *)
(***************************************************************************)
Abs(a) == IF a < 0 THEN -a ELSE a

RECURSIVE GCD(_, _)
GCD(a, b) == IF b = 0 THEN a ELSE GCD(b, a % b)

LCM(a, b) == (a \div GCD(a, b)) * b

\* n/d in lowest terms, d > 0
Rat(n, d) ==
    LET g == GCD(Abs(n), Abs(d))
        s == IF d < 0 THEN -1 ELSE 1
    IN  <<s * (n \div g), s * (d \div g)>>

RInt(n) == <<n, 1>>

RAdd(p, q) ==
    LET l == LCM(p[2], q[2])
    IN  Rat(p[1] * (l \div p[2]) + q[1] * (l \div q[2]), l)

RNeg(p) == <<-p[1], p[2]>>

RSub(p, q) == RAdd(p, RNeg(q))

RMul(p, q) ==
    LET a == Rat(p[1], q[2])
        b == Rat(q[1], p[2])
    IN  Rat(a[1] * b[1], a[2] * b[2])

\* p / q for q # 0
RDiv(p, q) == RMul(p, Rat(q[2], q[1]))

\* p <= q, compared over the common denominator
RLeq(p, q) ==
    LET l == LCM(p[2], q[2])
    IN  p[1] * (l \div p[2]) <= q[1] * (l \div q[2])

RECURSIVE RSum(_)
RSum(s) == IF s = <<>> THEN RInt(0) ELSE RAdd(Head(s), RSum(Tail(s)))

(***************************************************************************)
(* _get_dirichlet_mixture_stats. A 2-D array is [cols, rows]: rows is the  *)
(* sequence of its rows, each a sequence of cols rationals, so that an     *)
(* array of shape (0, cols) keeps its column count. np.mean over an empty  *)
(* axis is nan (a RuntimeWarning, no exception).                           *)
(***************************************************************************)
\* a mean that forgets to divide by the row count
SumAxis0(m, cols) ==
    Arr([c \in 1..cols |->
        IF Len(m) = 0 THEN NaN
        ELSE RSum(Arr([r \in 1..Len(m) |-> m[r][c]]))])

\* np.mean(m, axis=0) of the rows m, each of cols entries
MeanAxis0(m, cols) ==
    Arr([c \in 1..cols |->
        IF Len(m) = 0 THEN NaN
        ELSE RDiv(RSum(Arr([r \in 1..Len(m) |-> m[r][c]])), RInt(Len(m)))])

\* mixture statistics whose second moment is alpha^2 / (S * (S + 1))
StatsSquaredMoment(alpha) ==
    LET R == Len(alpha.rows)
        alpha_sum == Arr([r \in 1..R |-> RSum(alpha.rows[r])])
        comp_m1 == Arr([r \in 1..R |->
                       Arr([c \in 1..alpha.cols |->
                           RDiv(alpha.rows[r][c], alpha_sum[r])])])
        comp_m2 == Arr([r \in 1..R |->
                       Arr([c \in 1..alpha.cols |->
                           RDiv(RMul(alpha.rows[r][c], alpha.rows[r][c]),
                                RMul(alpha_sum[r],
                                     RAdd(alpha_sum[r], RInt(1))))])])
        mean == MeanAxis0(comp_m1, alpha.cols)
        m2 == MeanAxis0(comp_m2, alpha.cols)
    IN  [mean |-> mean,
         var |-> Arr([c \in 1..alpha.cols |->
                     IF mean[c] = NaN THEN NaN
                     ELSE RSub(m2[c], RMul(mean[c], mean[c]))])]

_get_dirichlet_mixture_stats(alpha) ==
    LET R == Len(alpha.rows)
        alpha_sum == Arr([r \in 1..R |-> RSum(alpha.rows[r])])
        comp_m1 == Arr([r \in 1..R |->
                       Arr([c \in 1..alpha.cols |->
                           RDiv(alpha.rows[r][c], alpha_sum[r])])])
        comp_m2 == Arr([r \in 1..R |->
                       Arr([c \in 1..alpha.cols |->
                           RDiv(RMul(alpha.rows[r][c],
                                     RAdd(alpha.rows[r][c], RInt(1))),
                                RMul(alpha_sum[r],
                                     RAdd(alpha_sum[r], RInt(1))))])])
        mean == MeanAxis0(comp_m1, alpha.cols)
        m2 == MeanAxis0(comp_m2, alpha.cols)
    IN  [mean |-> mean,
         var |-> Arr([c \in 1..alpha.cols |->
                     IF mean[c] = NaN THEN NaN
                     ELSE RSub(m2[c], RMul(mean[c], mean[c]))])]

\* np.argmax of a non-empty vector, as a 1-based index: the first maximum,
\* and the first nan when there is one
Argmax(v) ==
    IF \E c \in 1..Len(v) : v[c] = NaN
    THEN CHOOSE c \in 1..Len(v) :
             v[c] = NaN /\ \A d \in 1..(c - 1) : v[d] # NaN
    ELSE CHOOSE c \in 1..Len(v) :
             /\ \A d \in 1..Len(v) : RLeq(v[d], v[c])
             /\ \A d \in 1..(c - 1) : ~RLeq(v[c], v[d])

\* max_var of predict_on_batch for n_classes >= 2
MaxVar(n_classes) == Rat(n_classes - 1, n_classes * n_classes)

\* var[np.argmax(mean)] / max_var
Uncertainty(stats, n_classes) ==
    LET v == stats.var[Argmax(stats.mean)]
    IN  IF v = NaN THEN NaN ELSE RDiv(v, MaxVar(n_classes))

\* dict(zip(keys, values)): zip stops at the shorter, a repeated key keeps
\* its last value
DictZip(keys, values) ==
    LET n == Min(Len(keys), Len(values))
    IN  [k \in {keys[i] : i \in 1..n} |->
            values[CHOOSE i \in 1..n :
                       keys[i] = k /\ \A j \in (i + 1)..n : keys[j] # k]]

(***************************************************************************)
(* Input domains.                                                          *)
(***************************************************************************)
Names == <<"A", "B", "C", "D", "E", "F">>

\* class lists given to build: prefixes of Names, and one in another order
ClassLists ==
    {SubSeq(Names, 1, n) : n \in 2..MaxClasses} \cup {<<"B", "A">>}

\* one-hot target vectors over n classes
OneHot(n) ==
    {[c \in 1..n |-> IF c = k THEN RInt(1) ELSE RInt(0)] : k \in 1..n}

\* The item at position i with r rows: row j of its signal is tagged <<i, j>>
Item(i, r, t) == [signal |-> [j \in 1..r |-> <<i, j>>], target |-> t]

TargetsOf(n) == {None} \cup {Some(t) : t \in OneHot(n)}

\* batches of lo..hi items of at most maxr rows, with targets over n classes
BatchesOf(n, lo, hi, maxr) ==
    UNION {
        {[i \in 1..k |-> Item(i, rt[i][1], rt[i][2])] :
            rt \in [1..k -> (0..maxr) \X TargetsOf(n)]} : k \in lo..hi}

Batches(n) == BatchesOf(n, 0, MaxItems, MaxRows)

\* rows the network can output: cols strictly positive parameters
AlphaRows(vals, cols) == [1..cols -> vals]

\* parameter values of the mixtures given to _get_dirichlet_mixture_stats
AlphaVals == {Rat(1, 2), RInt(2)}

\* pipeline variable names; None stores nothing
VarNames == {"v"}

(***************************************************************************)
(* The object after __init__, and an empty pipeline.                       *)
(***************************************************************************)
NoCall == [op |-> "", done |-> TRUE]
NoRet == [raised |-> ""]

InitModel ==
    /\ classes = None
    /\ built = None
    /\ global_step = 0
    /\ files = <<>>
    /\ pipeline = [v \in VarNames |-> <<>>]
    /\ ncalls = 0

(***************************************************************************)
(* _concatenate_batch as a function of its input: batches of up to         *)
(* MaxItems items whose targets are None or vectors over two classes.      *)
(***************************************************************************)
InitConcat ==
    /\ InitModel
    /\ \E b \in Batches(2) :
           call = [op |-> "_concatenate_batch", done |-> FALSE, batch |-> b]
    /\ ret = NoRet

ConcatenateBatch ==
    /\ call.op = "_concatenate_batch"
    /\ ~call.done
    /\ call' = [call EXCEPT !.done = TRUE]
    /\ ret' = _concatenate_batch(call.batch)
    /\ UNCHANGED <<classes, built, global_step, files, pipeline, ncalls>>

NextConcat == ConcatenateBatch

SpecConcat == InitConcat /\ [][NextConcat]_vars

(***************************************************************************)
(* Properties of _concatenate_batch (SpecConcat).                          *)
(***************************************************************************)
ConcatReturned ==
    call.op = "_concatenate_batch" /\ call.done /\ ret.raised = ""

RowsOf(batch, i) == Len(batch[i].signal)

\* rows stacked before item i
OffsetOf(batch, i) == SumSeq([k \in 1..(i - 1) |-> RowsOf(batch, k)])

TotalRows(batch) == OffsetOf(batch, Len(batch) + 1)

\* C1: splitting the stacked signal, or any array with as many rows (here the
\* array of the row positions 1..N), at the returned split_indices gives one
\* group per item, in item order, group i holding exactly the rows item i
\* contributed, in their order.
C1_SplitRoundTrip ==
    ConcatReturned =>
        LET b == call.batch
            groups == Split(ret.x, ret.split_indices)
            pos == Split([q \in 1..Len(ret.x) |-> q], ret.split_indices)
        IN  /\ Len(ret.x) = TotalRows(b)
            /\ Len(groups) = Len(b)
            /\ Len(pos) = Len(b)
            /\ \A i \in 1..Len(b) :
                   /\ groups[i] = b[i].signal
                   /\ pos[i] = [j \in 1..RowsOf(b, i) |-> OffsetOf(b, i) + j]

C1_Witness ==
    /\ ConcatReturned
    /\ Len(call.batch) = 2
    /\ RowsOf(call.batch, 1) = 2
    /\ RowsOf(call.batch, 2) = 1

\* the offsets are the cumulative row counts of all items but the last
OffsetsCumulative ==
    LET b == call.batch
    IN  /\ Len(ret.split_indices) = Len(b) - 1
        /\ \A k \in 1..(Len(b) - 1) :
               ret.split_indices[k] = OffsetOf(b, k + 1)

\* each offset is greater than the previous one and less than the total
OffsetsStrict ==
    LET idx == ret.split_indices
    IN  /\ \A k \in 2..Len(idx) : idx[k - 1] < idx[k]
        /\ \A k \in 1..Len(idx) : idx[k] < Len(ret.x)

\* each offset is at least the previous one and at most the total
OffsetsMonotone ==
    LET idx == ret.split_indices
    IN  /\ \A k \in 2..Len(idx) : idx[k - 1] <= idx[k]
        /\ \A k \in 1..Len(idx) : idx[k] <= Len(ret.x)

\* C3 as stated: for a batch of n >= 1 items the split offsets are n - 1
\* cumulative row counts and strictly increasing, each below the total.
C3_OffsetsStrictlyIncreasing ==
    ConcatReturned => OffsetsCumulative /\ OffsetsStrict

\* C3 amended: the split offsets are n - 1 cumulative row counts, never
\* decreasing and never above the total; they are strictly increasing and
\* below the total when every item has at least one row.
C3_OffsetsCumulative ==
    ConcatReturned =>
        /\ OffsetsCumulative
        /\ OffsetsMonotone
        /\ (\A i \in 1..Len(call.batch) : RowsOf(call.batch, i) >= 1)
               => OffsetsStrict

C3_Witness ==
    /\ ConcatReturned
    /\ Len(call.batch) = 2
    /\ RowsOf(call.batch, 1) = 1
    /\ RowsOf(call.batch, 2) = 2
    /\ ret.split_indices = <<1>>

\* C4: y has as many rows as x, and the rows of y at the positions of an item
\* with target vector t all equal t.
C4_TargetTiling ==
    ConcatReturned =>
        LET b == call.batch
        IN  /\ Len(ret.y) = Len(ret.x)
            /\ \A i \in 1..Len(b) :
                   b[i].target # None =>
                       \A j \in 1..RowsOf(b, i) :
                           ret.y[OffsetOf(b, i) + j] = b[i].target[1]

C4_Witness ==
    /\ ConcatReturned
    /\ Len(call.batch) = 2
    /\ RowsOf(call.batch, 1) = 1
    /\ RowsOf(call.batch, 2) = 2
    /\ call.batch[1].target # None
    /\ call.batch[2].target # None
    /\ call.batch[1].target # call.batch[2].target

(***************************************************************************)
(* _get_dirichlet_mixture_stats as a function of its input: arrays of 0 to *)
(* MaxRows rows of strictly positive parameters, among them the row        *)
(* [10, 1, 1].                                                             *)
(***************************************************************************)
ExampleRow == <<RInt(10), RInt(1), RInt(1)>>

StatsRows(cols) ==
    AlphaRows(AlphaVals, cols) \cup (IF cols = Len(ExampleRow) THEN {ExampleRow} ELSE {})

InitStats ==
    /\ InitModel
    /\ \E n \in 2..MaxClasses : \E rows \in SeqsUpTo(StatsRows(n), 0, MaxRows) :
           call = [op |-> "_get_dirichlet_mixture_stats", done |-> FALSE,
                   alpha |-> [cols |-> n, rows |-> rows]]
    /\ ret = NoRet

GetDirichletMixtureStats ==
    /\ call.op = "_get_dirichlet_mixture_stats"
    /\ ~call.done
    /\ call' = [call EXCEPT !.done = TRUE]
    /\ ret' = [raised |-> "",
               stats |-> _get_dirichlet_mixture_stats(call.alpha)]
    /\ UNCHANGED <<classes, built, global_step, files, pipeline, ncalls>>

NextStats == GetDirichletMixtureStats

SpecStats == InitStats /\ [][NextStats]_vars

StatsReturned ==
    call.op = "_get_dirichlet_mixture_stats" /\ call.done /\ ret.raised = ""

\* C5: for one or more rows of strictly positive parameters the mixture mean
\* sums to 1 over the classes.
C5_MeanSumsToOne ==
    (StatsReturned /\ Len(call.alpha.rows) >= 1) =>
        RSum(ret.stats.mean) = RInt(1)

C5_Witness ==
    /\ StatsReturned
    /\ Len(call.alpha.rows) = 2
    /\ call.alpha.rows[1] # call.alpha.rows[2]
    /\ \E c \in 1..call.alpha.cols : ret.stats.mean[c] # Rat(1, call.alpha.cols)

\* C6: for exactly one row alpha with S = sum(alpha), every class c has
\* mean_c = alpha_c / S and var_c = alpha_c (alpha_c + 1) / (S (S + 1)) -
\* mean_c^2 (stated as mean_c * S = alpha_c and (var_c + mean_c^2) * S *
\* (S + 1) = alpha_c * (alpha_c + 1)); for [10, 1, 1] the mean is
\* [10/12, 1/12, 1/12] and the first class is predicted.
C6_SingleRowStats ==
    (StatsReturned /\ Len(call.alpha.rows) = 1) =>
        LET a == call.alpha.rows[1]
            S == RSum(a)
            mean == ret.stats.mean
            var == ret.stats.var
        IN  /\ Len(mean) = call.alpha.cols
            /\ Len(var) = call.alpha.cols
            /\ \A c \in 1..call.alpha.cols :
                   /\ RMul(mean[c], S) = a[c]
                   /\ RMul(RAdd(var[c], RMul(mean[c], mean[c])),
                           RMul(S, RAdd(S, RInt(1))))
                          = RMul(a[c], RAdd(a[c], RInt(1)))
            /\ a = ExampleRow =>
                   /\ mean = <<Rat(10, 12), Rat(1, 12), Rat(1, 12)>>
                   /\ Argmax(mean) = 1

C6_Witness ==
    /\ StatsReturned
    /\ call.alpha.rows = <<ExampleRow>>
    /\ ret.stats.mean[1] = Rat(5, 6)

(***************************************************************************)
(* The target smoothing of build: target = (1 - 2 * k) * self._target + k, *)
(* element by element, on one target row.                                  *)
(***************************************************************************)
k == Rat(1, 1000)

SmoothTarget(t) ==
    [c \in 1..Len(t) |->
        RAdd(RMul(RSub(RInt(1), RMul(RInt(2), k)), t[c]), k)]

\* denominator of the target probabilities tried
TargetDen == 10

\* probability vectors over n classes with entries in tenths
ProbRows(n) ==
    {[c \in 1..n |-> Rat(p[c], TargetDen)] :
        p \in {q \in [1..n -> 0..TargetDen] :
                   SumSeq(q) = TargetDen}}

InitSmooth ==
    /\ InitModel
    /\ \E n \in 2..MaxClasses : \E t \in ProbRows(n) :
           call = [op |-> "smooth_target", done |-> FALSE, target |-> t]
    /\ ret = NoRet

SmoothTargetRow ==
    /\ call.op = "smooth_target"
    /\ ~call.done
    /\ call' = [call EXCEPT !.done = TRUE]
    /\ ret' = [raised |-> "", target |-> SmoothTarget(call.target)]
    /\ UNCHANGED <<classes, built, global_step, files, pipeline, ncalls>>

NextSmooth == SmoothTargetRow

SpecSmooth == InitSmooth /\ [][NextSmooth]_vars

RBetween(x, a, b) ==
    \/ RLeq(a, x) /\ RLeq(x, b)
    \/ RLeq(b, x) /\ RLeq(x, a)

\* C9: every smoothed entry (1 - 2k) t_c + k lies between the original entry
\* t_c and the uniform value 1/n, inclusive.
C9_SmoothedTowardUniform ==
    (call.op = "smooth_target" /\ call.done) =>
        \A c \in 1..Len(call.target) :
            RBetween(ret.target[c], call.target[c], Rat(1, Len(call.target)))

(***************************************************************************)
(* The methods of DirichletModel. Each action is one call: it records the  *)
(* call and what it returned or raised. A call that raises leaves          *)
(* everything it had not yet assigned as it was.                           *)
(***************************************************************************)
Raise(op, args, exc) ==
    /\ call' = [op |-> op, done |-> TRUE, args |-> args]
    /\ ret' = [raised |-> exc]

\* build(input_shape, output_shape, classes) with output_shape = (n_out,)
Build(n_out, cl) ==
    /\ classes' = Some(cl)
    /\ built' = Some(n_out)
    /\ global_step' = 0
    /\ call' = [op |-> "build", done |-> TRUE,
                args |-> [output_shape |-> n_out, classes |-> cl]]
    /\ ret' = NoRet
    /\ UNCHANGED <<files, pipeline>>

\* the file names save derives from path and the global step
SavedAs(path, step) == <<path, step>>

\* save(path): the checkpoint and MetaGraph of the session, and the dill
\* file of the class names, all under "{path}-{global_step}"
Save(path) ==
    IF built = None
    THEN /\ Raise("save", [path |-> path], "AttributeError")
         /\ UNCHANGED <<classes, built, global_step, files, pipeline>>
    ELSE /\ files' =
                [f \in DOMAIN files \cup {SavedAs(path, global_step)} |->
                    IF f = SavedAs(path, global_step)
                    THEN [graph |-> built[1], classes |-> classes]
                    ELSE files[f]]
         /\ call' = [op |-> "save", done |-> TRUE, args |-> [path |-> path]]
         /\ ret' = NoRet
         /\ UNCHANGED <<classes, built, global_step, pipeline>>

\* a classes_path that names no file
MissingFile == <<"missing", 0>>

\* a load that restores the graph and leaves the class names alone
LoadGraphOnly(ckpt, classes_path) ==
    /\ ckpt \in DOMAIN files
    /\ built' = Some(files[ckpt].graph)
    /\ global_step' = ckpt[2]
    /\ classes' = classes
    /\ IF classes_path \in DOMAIN files
       THEN /\ call' = [op |-> "load", done |-> TRUE,
                        args |-> [checkpoint_path |-> ckpt,
                                  classes_path |-> classes_path]]
            /\ ret' = NoRet
       ELSE Raise("load", [checkpoint_path |-> ckpt,
                           classes_path |-> classes_path],
                  "FileNotFoundError")
    /\ UNCHANGED <<files, pipeline>>

\* load(graph_path, checkpoint_path, classes_path): the graph and weights of
\* the saved model ckpt, then the class names of classes_path; open raises
\* when that file is missing, after the graph was replaced
Load(ckpt, classes_path) ==
    /\ ckpt \in DOMAIN files
    /\ built' = Some(files[ckpt].graph)
    /\ global_step' = ckpt[2]
    /\ IF classes_path \in DOMAIN files
       THEN /\ classes' = files[classes_path].classes
            /\ call' = [op |-> "load", done |-> TRUE,
                        args |-> [checkpoint_path |-> ckpt,
                                  classes_path |-> classes_path]]
            /\ ret' = NoRet
       ELSE /\ classes' = classes
            /\ Raise("load", [checkpoint_path |-> ckpt,
                              classes_path |-> classes_path],
                     "FileNotFoundError")
    /\ UNCHANGED <<files, pipeline>>

\* _append_result(batch, var_name, result) for each of the results in turn
AppendResults(var_name, results) ==
    IF var_name = None THEN pipeline
    ELSE [pipeline EXCEPT ![var_name[1]] = @ \o results]

\* what session.run raises for the feed of x and y, "" when it runs: the
\* session of an object never built is None; a target of None cannot be fed
\* as float32; y must have the target placeholder's column count
FeedError(c, batch) ==
    IF built = None THEN "AttributeError"
    ELSE IF \E i \in 1..Len(batch) : batch[i].target = None THEN "TypeError"
    ELSE IF \E i \in 1..Len(batch) : Cols(batch[i].target) # built[1]
    THEN "ValueError"
    ELSE ""

\* the loss tf.reduce_mean gives: nan over no rows
LossOf(c, loss) == [loss |-> IF Len(c.x) = 0 THEN NaN ELSE loss]

\* train_on_batch(batch, loss_var_name), the session returning loss
TrainOnBatch(batch, loss_var_name, loss) ==
    LET c == _concatenate_batch(batch)
        args == [batch |-> batch, loss_var_name |-> loss_var_name]
        exc == IF c.raised # "" THEN c.raised ELSE FeedError(c, batch)
    IN  IF exc # ""
        THEN /\ Raise("train_on_batch", args, exc)
             /\ UNCHANGED <<classes, built, global_step, files, pipeline>>
        ELSE /\ global_step' = global_step + 1
             /\ pipeline' = AppendResults(loss_var_name, <<LossOf(c, loss)>>)
             /\ call' = [op |-> "train_on_batch", done |-> TRUE, args |-> args]
             /\ ret' = [raised |-> "", loss |-> LossOf(c, loss)]
             /\ UNCHANGED <<classes, built, files>>

\* test_on_batch(batch, loss_var_name), the session returning loss
TestOnBatch(batch, loss_var_name, loss) ==
    LET c == _concatenate_batch(batch)
        args == [batch |-> batch, loss_var_name |-> loss_var_name]
        exc == IF c.raised # "" THEN c.raised ELSE FeedError(c, batch)
    IN  IF exc # ""
        THEN /\ Raise("test_on_batch", args, exc)
             /\ UNCHANGED <<classes, built, global_step, files, pipeline>>
        ELSE /\ pipeline' = AppendResults(loss_var_name, <<LossOf(c, loss)>>)
             /\ call' = [op |-> "test_on_batch", done |-> TRUE, args |-> args]
             /\ ret' = [raised |-> "", loss |-> LossOf(c, loss)]
             /\ UNCHANGED <<classes, built, global_step, files>>

\* predictions_dict of predict_on_batch for the alpha rows a of one item and
\* its target t
PredictionsDict(cl, a, t) ==
    LET stats == _get_dirichlet_mixture_stats(a)
        pred == [target_pred |-> DictZip(cl, stats.mean),
                 uncertainty |-> Uncertainty(stats, Len(cl))]
    IN  IF t # None
        THEN [target_pred |-> pred.target_pred,
              uncertainty |-> pred.uncertainty,
              target_true |-> DictZip(cl, t[1])]
        ELSE pred

\* the loop of predict_on_batch over zip(np.split(alpha, split_indices),
\* batch.target)
PredictResults(cl, batch, alpha, split_indices) ==
    LET groups == Split(alpha.rows, split_indices)
    IN  Arr([i \in 1..Min(Len(groups), Len(batch)) |->
                PredictionsDict(cl, [cols |-> alpha.cols, rows |-> groups[i]],
                                batch[i].target)])

\* predict_on_batch(batch, predictions_var_name), the session returning the
\* rows alpha_rows for the stacked signal rows
PredictOnBatch(batch, predictions_var_name, alpha_rows) ==
    LET args == [batch |-> batch,
                 predictions_var_name |-> predictions_var_name]
        c == _concatenate_batch(batch)
        exc == IF classes = None THEN "TypeError"
               ELSE IF c.raised # "" THEN c.raised
               ELSE IF built = None THEN "AttributeError"
               ELSE ""
    IN  IF exc # ""
        THEN /\ Raise("predict_on_batch", args, exc)
             /\ UNCHANGED <<classes, built, global_step, files, pipeline>>
        ELSE LET alpha == [cols |-> built[1], rows |-> alpha_rows]
                 results == PredictResults(classes[1], batch, alpha,
                                           c.split_indices)
             IN  /\ Len(alpha_rows) = Len(c.x)
                 /\ pipeline' = AppendResults(predictions_var_name, results)
                 /\ call' = [op |-> "predict_on_batch", done |-> TRUE,
                             args |-> args]
                 /\ ret' = [raised |-> "", alpha |-> alpha,
                            results |-> results]
                 /\ UNCHANGED <<classes, built, global_step, files>>

(***************************************************************************)
(* The life of one model object: any MaxCalls calls of its methods, on     *)
(* one-item batches.                                                       *)
(***************************************************************************)
Paths == {"p"}

LossVals == {RInt(1)}

\* outputs of the softplus layer for strongly negative pre-activations
NetVals == {Rat(1, 100), Rat(1, 50)}

\* output rows of the network, up to the order of the classes
NetRows(cols) ==
    {r \in AlphaRows(NetVals, cols) :
        \A c \in 1..(cols - 1) : RLeq(r[c + 1], r[c])}

\* one labelled item, one unlabelled item, one item of no rows
LifeBatches ==
    {<<Item(1, 1, Some(t))>> : t \in {<<RInt(1), RInt(0)>>}}
        \cup {<<Item(1, 1, None)>>, <<Item(1, 0, None)>>}

\* what the session can return for a batch: one row per stacked signal row
NetOutputs(batch, rows) == [1..TotalRows(batch) -> rows]

\* the rows with all parameters equal
UniformRows(cols) == {r \in NetRows(cols) : r[cols] = r[1]}

OptVarNames == {None} \cup {Some(v) : v \in VarNames}

Counted ==
    /\ ncalls < MaxCalls
    /\ ncalls' = ncalls + 1

DoBuild ==
    /\ Counted
    /\ \E cl \in ClassLists : Build(Len(cl), cl)

DoSave ==
    /\ Counted
    /\ \E path \in Paths : Save(path)

DoLoad ==
    /\ Counted
    /\ \E ckpt \in DOMAIN files :
           \E classes_path \in DOMAIN files \cup {MissingFile} :
               Load(ckpt, classes_path)

DoTrain ==
    /\ Counted
    /\ \E b \in LifeBatches : \E v \in OptVarNames : \E l \in LossVals :
           TrainOnBatch(b, v, l)

DoTest ==
    /\ Counted
    /\ \E b \in LifeBatches : \E v \in OptVarNames : \E l \in LossVals :
           TestOnBatch(b, v, l)

DoPredict ==
    /\ Counted
    /\ \E b \in LifeBatches : \E v \in OptVarNames :
           \E a \in NetOutputs(b, UniformRows(IF built = None THEN 1
                                               ELSE built[1])) :
               PredictOnBatch(b, v, a)

Init ==
    /\ InitModel
    /\ call = NoCall
    /\ ret = NoRet

Next == DoBuild \/ DoSave \/ DoLoad \/ DoTrain \/ DoTest \/ DoPredict

Spec == Init /\ [][Next]_vars

(***************************************************************************)
(* One call of predict_on_batch on a model that build has built, on a      *)
(* batch of at most MaxRows stacked rows.                                  *)
(***************************************************************************)
\* batches of at most MaxRows stacked rows
PredictBatches(n) == {b \in Batches(n) : TotalRows(b) <= MaxRows}

InitPredict ==
    /\ \E cl \in ClassLists :
           /\ classes = Some(cl)
           /\ built = Some(Len(cl))
           /\ \E b \in PredictBatches(Len(cl)) : \E v \in OptVarNames :
                  call = [op |-> "predict_on_batch", done |-> FALSE,
                          args |-> [batch |-> b, predictions_var_name |-> v]]
    /\ global_step = 0
    /\ files = <<>>
    /\ pipeline = [v \in VarNames |-> <<>>]
    /\ ncalls = 1
    /\ ret = NoRet

OnePredict ==
    /\ call.op = "predict_on_batch"
    /\ ~call.done
    /\ ncalls' = ncalls + 1
    /\ \E a \in NetOutputs(call.args.batch, NetRows(built[1])) :
           PredictOnBatch(call.args.batch, call.args.predictions_var_name, a)

NextPredict == OnePredict

SpecPredict == InitPredict /\ [][NextPredict]_vars

(***************************************************************************)
(* Properties of the object's life (Spec).                                 *)
(***************************************************************************)
\* C8: the class list is set only by build and load: train_on_batch,
\* test_on_batch, predict_on_batch and save leave it as it was, build makes
\* it the list it was given, and load makes it the list saved in the file
\* at classes_path (and leaves it alone when that file is missing).
C8_ClassesSetOnlyByBuildAndLoad ==
    [][/\ call'.op \in {"train_on_batch", "test_on_batch",
                        "predict_on_batch", "save"}
           => classes' = classes
       /\ call'.op = "build" => classes' = Some(call'.args.classes)
       /\ (call'.op = "load" /\ ret'.raised = "")
           => classes' = files[call'.args.classes_path].classes
       /\ (call'.op = "load" /\ ret'.raised # "")
           => classes' = classes]_vars

\* a saved model loaded back: load has restored the class list of the file
C8_Witness ==
    /\ call.op = "load"
    /\ ret.raised = ""
    /\ classes = Some(<<"B", "A">>)
    /\ \E f \in DOMAIN files : files[f].classes = classes /\ files[f].graph = 2
    /\ built = Some(2)

(***************************************************************************)
(* Properties of one predict_on_batch call (SpecPredict).                  *)
(***************************************************************************)
PredictDone == call.op = "predict_on_batch" /\ call.done

\* the rows of the network's output at the positions of item i
AlphaOf(i) ==
    LET b == call.args.batch
    IN  [cols |-> ret.alpha.cols,
         rows |-> SubSeq(ret.alpha.rows, OffsetOf(b, i) + 1,
                         OffsetOf(b, i) + RowsOf(b, i))]

\* C7: a call with a variable name appends exactly one result per item, in
\* item order, the i-th computed from the alpha rows of item i, with
\* target_pred keyed by the class names, an uncertainty, and target_true
\* exactly when the item's target is not None.
C7_OneResultPerItem ==
    (PredictDone /\ call.args.predictions_var_name # None) =>
        LET b == call.args.batch
            out == pipeline[call.args.predictions_var_name[1]]
        IN  /\ Len(out) = Len(b)
            /\ ret.raised = "" =>
                   \A i \in 1..Len(b) :
                       /\ out[i].target_pred =
                              DictZip(classes[1],
                                      _get_dirichlet_mixture_stats(AlphaOf(i)).mean)
                       /\ DOMAIN out[i].target_pred =
                              {classes[1][n] : n \in 1..Len(classes[1])}
                       /\ "uncertainty" \in DOMAIN out[i]
                       /\ "target_true" \in DOMAIN out[i]
                              <=> b[i].target # None

\* C2: the uncertainty reported for an item of one or more alpha rows is
\* >= 0 and <= 1.
C2_UncertaintyInUnitInterval ==
    (PredictDone /\ ret.raised = "") =>
        \A i \in 1..Len(call.args.batch) :
            RowsOf(call.args.batch, i) >= 1 =>
                /\ RLeq(RInt(0), ret.results[i].uncertainty)
                /\ RLeq(ret.results[i].uncertainty, RInt(1))

\* C10: a call on a batch with an item of zero rows raises an error and
\* appends nothing (no nan result) to the predictions variable.
C10_ZeroRowsFailFast ==
    (/\ PredictDone
     /\ call.args.predictions_var_name # None
     /\ \E i \in 1..Len(call.args.batch) : RowsOf(call.args.batch, i) = 0) =>
        /\ ret.raised # ""
        /\ pipeline[call.args.predictions_var_name[1]] = <<>>

====
